---------------------------- MODULE Spec2Model ----------------------------
(***************************************************************************)
(* Model of the travel agent (agent.py: a three-node LangGraph pipeline    *)
(* with a MemorySaver checkpointer, interrupted before the executor node,  *)
(* driven by main()) and of its MCP tool server (mcp_server.py: the        *)
(* search_tourism tool).                                                   *)
(*                                                                         *)
(* Python strings are TLA+ strings (\o is +, Len is len, SubSeq slices),   *)
(* Python dicts are functions whose DOMAIN is the set of keys present.     *)
(***************************************************************************)
EXTENDS Integers, Sequences, FiniteSets, TLC

VARIABLES
    \* one entry per run of the agent process (agent.py), that is per session
    pc,             \* where main() stands: see MainPcs
    node,           \* the graph node the running astream / ainvoke is at
    xstep,          \* inside executor_node: the transport step to take next
    thread_id,      \* the uuid of line 183 (0: not drawn yet)
    values,         \* the AgentState of the running graph (a dict)
    memory,         \* the MemorySaver of line 171: thread_id -> checkpoint
    stdin,          \* the lines typed to the process and not read yet
    approval,       \* what input() returned at line 211 ("" before that)
    worker,         \* the MCP server subprocess: "none" | "live" | "closed"
    channel,        \* the ClientSession of line 106:
                    \* "none" | "open" | "ready" (initialized) | "closed"
    result,         \* result.content of the call_tool of line 115
    error,          \* the exception that left main() ("" if none)
    faulted,        \* the node an exception was raised in ("" if none)
    raised_at,      \* the step of executor_node that raised ("" if none)
    \* history, per session
    runs,           \* how many times each node was entered
    spawned,        \* how many worker subprocesses were spawned
    sent,           \* the queries of every search_tourism request sent
    shown,          \* the queries printed at line 209 (<<>> before that)
    \* the tool server process (mcp_server.py)
    tool_key,       \* TAVILY_API_KEY is set (line 28)
    tool_pc,        \* "idle" | "returned"
    tool_queries,   \* the argument of the last search_tourism call
    tool_oracle,    \* what tavily.search did for each call of that invocation
    tool_ret,       \* what that invocation did: see search_tourism
    \* the rendering of one source snippet (lines 76-85)
    render_pc,      \* "idle" | "in" | "out"
    render_res,     \* the result dict
    render_entry    \* the text appended to summary for it

toolVars == <<tool_key, tool_pc, tool_queries, tool_oracle, tool_ret>>
renderVars == <<render_pc, render_res, render_entry>>
agentVars == <<pc, node, xstep, thread_id, values, memory, stdin, approval, worker,
               channel, result, error, faulted, raised_at, runs, spawned, sent, shown>>
vars == <<agentVars, toolVars, renderVars>>

(***************************************************************************)
(* Bounds of the model.                                                    *)
(***************************************************************************)
\* longest list of queries handed to search_tourism
MaxQueries == 5
\* how far beyond MAX_CHARS_PER_RESULT the content strings reach
MaxOverflow == 4
\* agent processes (sessions) that run side by side
NumSessions == 2
\* lines the operator types to one process
MaxTyped == 2

(***************************************************************************)
(* mcp_server.py                                                           *)
(***************************************************************************)
MAX_QUERIES_PER_BATCH == 3
MAX_CHARS_PER_RESULT == 300

Min(a, b) == IF a < b THEN a ELSE b

\* s[:n] of a Python string or list
Prefix(s, n) == SubSeq(s, 1, Min(n, Len(s)))

\* d.get(k, default)
Get(d, k, default) == IF k \in DOMAIN d THEN d[k] ELSE default

\* "if d.get(k):" for a string valued key: absent (None) and "" are falsy
Truthy(d, k) == k \in DOMAIN d /\ d[k] # ""

\* sep.join(list)
RECURSIVE Join(_, _)
Join(list, sep) ==
    IF Len(list) = 0 THEN ""
    ELSE IF Len(list) = 1 THEN list[1]
    ELSE list[1] \o sep \o Join(Tail(list), sep)

\* the i-th character of the endless text "abcabc..."
CharAt(i) == CASE i % 3 = 1 -> "a" [] i % 3 = 2 -> "b" [] OTHER -> "c"

\* its characters lo..hi
RECURSIVE Chars(_, _)
Chars(lo, hi) ==
    IF lo > hi THEN ""
    ELSE IF lo = hi THEN CharAt(lo)
    ELSE LET mid == (lo + hi) \div 2
         IN  Chars(lo, mid) \o Chars(mid + 1, hi)

\* a content string of n characters
Content(n) == Chars(1, n)

\* line 79 with >= for >
clean_content_off_by_one(content) ==
    IF Len(content) >= MAX_CHARS_PER_RESULT
    THEN Prefix(content, MAX_CHARS_PER_RESULT) \o "..."
    ELSE content

\* line 79
clean_content(content) ==
    IF Len(content) > MAX_CHARS_PER_RESULT
    THEN Prefix(content, MAX_CHARS_PER_RESULT) \o "..."
    ELSE content

\* lines 81-85: the entry of one source snippet
ResultEntry(res) ==
    "- **Title**: " \o Get(res, "title", "N/A") \o "\n"
    \o "  **Link**: " \o Get(res, "url", "#") \o "\n"
    \o "  **Content**: " \o clean_content(Get(res, "content", "")) \o "\n\n"

\* lines 76-85: the loop over response.get('results', [])
RECURSIVE ResultEntries(_)
ResultEntries(results) ==
    IF Len(results) = 0 THEN ""
    ELSE ResultEntry(Head(results)) \o ResultEntries(Tail(results))

\* lines 69-85: the formatted section of a query whose search returned
Summary(query, response) ==
    "### Results for: '" \o query \o "'\n"
    \o (IF Truthy(response, "answer")
        THEN "**AI Summary**: " \o response.answer \o "\n\n"
        ELSE "")
    \o ResultEntries(Get(response, "results", <<>>))

\* line 91: the section of a query whose search raised
ErrorLine(query, e) == "Error searching '" \o query \o "': " \o e

\* a search that raises is a response with the key "exception" (str(e))
Raises(response) == "exception" \in DOMAIN response

\* lines 55-91, abort variant: the exception of one query leaves the loop
iteration_abort(acc, query, response) ==
    IF acc.raised \/ Raises(response)
    THEN [acc EXCEPT !.raised = TRUE,
                     !.calls = IF acc.raised THEN @ ELSE Append(@, query)]
    ELSE [acc EXCEPT !.calls = Append(@, query),
                     !.results = Append(@, Summary(query, response))]

\* lines 55-91: one iteration of the loop, the try and its except
iteration(acc, query, response) ==
    [acc EXCEPT !.calls = Append(@, query),
                !.results = Append(@, IF Raises(response)
                                      THEN ErrorLine(query, response.exception)
                                      ELSE Summary(query, response))]

\* lines 54-91: the loop over processing_queries, from index i on;
\* oracle[i] is what tavily.search does for the i-th call
RECURSIVE loop(_, _, _, _)
loop(acc, processing_queries, oracle, i) ==
    IF i > Len(processing_queries) THEN acc
    ELSE loop(iteration(acc, processing_queries[i], oracle[i]),
              processing_queries, oracle, i + 1)

\* line 47, slicing one query too many
processing_queries_one_more(queries) == Prefix(queries, MAX_QUERIES_PER_BATCH + 1)

\* line 47
processing_queries(queries) == Prefix(queries, MAX_QUERIES_PER_BATCH)

\* line 95
SkippedNote(n) ==
    "\n*Note: " \o ToString(n) \o " queries were skipped to conserve resources.*"

MissingKeyText == "Error: Server misconfigured (Missing API Key)."

\* lines 42-44, raising for the missing key
missing_key_raise ==
    [calls |-> <<>>, results |-> <<>>, raised |-> TRUE, output |-> ""]

\* lines 42-44: the missing key is logged and its text returned
missing_key_return ==
    [calls |-> <<>>, results |-> <<>>, raised |-> FALSE, output |-> MissingKeyText]

\* lines 33-97: [calls: the queries tavily.search was called with, in order;
\*               results: consolidated_results; output: the returned text;
\*               raised: an exception left the handler]
search_tourism(api_key, queries, oracle) ==
    IF ~api_key
    THEN missing_key_return
    ELSE LET acc == loop([calls |-> <<>>, results |-> <<>>, raised |-> FALSE],
                         processing_queries(queries), oracle, 1)
             all == IF Len(queries) > MAX_QUERIES_PER_BATCH
                    THEN Append(acc.results,
                                SkippedNote(Len(queries) - MAX_QUERIES_PER_BATCH))
                    ELSE acc.results
         IN  [calls |-> acc.calls, results |-> all, raised |-> acc.raised,
              output |-> Join(all, "\n")]

(***************************************************************************)
(* The inputs of the tool server.                                          *)
(***************************************************************************)
QueryStrings == {"q1", "q2"}

RECURSIVE SeqsUpTo(_, _)
SeqsUpTo(S, n) ==
    IF n = 0 THEN {<<>>}
    ELSE LET shorter == SeqsUpTo(S, n - 1)
         IN  shorter \cup {Append(s, x) : s \in {t \in shorter : Len(t) = n - 1}, x \in S}

QueryLists == SeqsUpTo(QueryStrings, MaxQueries)

\* the lengths of content around the truncation limit, and the short ones
ContentLengths == 0 .. (MAX_CHARS_PER_RESULT + MaxOverflow)

ShortResult == [title |-> "T", url |-> "http://u", content |-> "abc"]
LimitResult == [title |-> "L", url |-> "http://l",
                content |-> Content(MAX_CHARS_PER_RESULT)]
LongResult  == [url |-> "http://x", content |-> Content(MAX_CHARS_PER_RESULT + 1)]
BareResult  == [x \in {} |-> ""]

\* what one call of tavily.search can do
Responses ==
    { [exception |-> "timeout"],
      [x \in {} |-> ""],
      [results |-> <<>>],
      [answer |-> "A", results |-> <<ShortResult>>],
      [answer |-> "", results |-> <<LongResult, BareResult>>],
      [answer |-> "B", results |-> <<LimitResult, ShortResult>>] }

RECURSIVE SeqsOfLen(_, _)
SeqsOfLen(S, n) ==
    IF n = 0 THEN {<<>>}
    ELSE {Append(s, x) : s \in SeqsOfLen(S, n - 1), x \in S}

(***************************************************************************)
(* agent.py: the inputs.                                                   *)
(***************************************************************************)
Sessions == 1 .. NumSessions

\* line 183: every session draws a thread id that no other session has
uuid4(p) == p

\* user_input of main() (lines 189-194)
Requests == {"3-day trip to Rio de Janeiro"}

\* what the planner LLM can answer (a SearchStrategy)
Strategies ==
    { [reasoning |-> "why1", queries |-> <<"q1">>],
      [reasoning |-> "why2", queries |-> <<"q2", "q1", "q2", "q1">>] }

\* what the writer LLM can name as TripItinerary.destination
Destinations == {"Rio de Janeiro", "Niteroi"}

\* what the operator can type at the prompt: an approval (in capitals, so that
\* it is one only once lowered) or a rejection
Lines == {"Y", "n"}

\* str.lower() of one typed line
Lower(line) == CASE line = "Y" -> "y" [] line = "N" -> "n" [] OTHER -> line

EmptyDict == [x \in {} |-> ""]

\* d[k] = v on a dict
Put(d, k, v) == [x \in DOMAIN d \cup {k} |-> IF x = k THEN v ELSE d[x]]

(***************************************************************************)
(* agent.py: the graph (lines 157-177).                                    *)
(***************************************************************************)
END == "__end__"

\* line 165
entry_point == "planner"

\* lines 166-168
next_node(n) ==
    CASE n = "planner" -> "executor"
      [] n = "executor" -> "writer"
      [] n = "writer" -> END

\* the graph compiled with no interrupt
interrupt_before_nothing == {}

\* line 176
interrupt_before == {"executor"}

\* a node that raises is run again
on_exception_retry(n) == "retry"

\* lines 128-130 (raise e), and lines 160-162: no node has a retry policy
on_exception(n) == "raise"

\* the planner's update under the key of the executor's update
planner_update_wrong_key(strategy) == [key |-> "search_results", value |-> strategy]

\* line 86
planner_update(strategy) == [key |-> "search_strategy", value |-> strategy]

\* line 126
executor_update(final_text) == [key |-> "search_results", value |-> final_text]

\* the writer's update under the key of the executor's, as a text
writer_update_over_results(res) == [key |-> "search_results", value |-> res.destination]

\* line 153
writer_update(res) == [key |-> "final_itinerary", value |-> res]

\* lines 118-121, with each text put before what was collected
RECURSIVE ExtractText_prepending(_)
ExtractText_prepending(content) ==
    IF Len(content) = 0 THEN ""
    ELSE ExtractText_prepending(Tail(content))
         \o (IF Head(content).type = "text" THEN Head(content).text ELSE "")

\* lines 118-121: the text of the blocks of type "text", in order
RECURSIVE ExtractText(_)
ExtractText(content) ==
    IF Len(content) = 0 THEN ""
    ELSE (IF Head(content).type = "text" THEN Head(content).text ELSE "")
         \o ExtractText(Tail(content))

\* the tool server answers a call with the returned string as one text block
TextBlock(text) == [type |-> "text", text |-> text]

\* the searches of the worker: each of them answers
WorkerOracle(queries) ==
    [i \in 1 .. Len(processing_queries(queries)) |->
        [answer |-> "A", results |-> <<ShortResult>>]]

\* result.content of call_tool("search_tourism", {"queries": queries}): the
\* text search_tourism returns in the environment of the worker (with or
\* without TAVILY_API_KEY), as one text block; or other sequences of blocks a
\* server may answer with
ToolResults(queries) ==
    {<<TextBlock(search_tourism(tool_key, queries, WorkerOracle(queries)).output)>>,
     <<>>,
     <<[type |-> "image", data |-> "x"], TextBlock("A"), TextBlock("B")>>}

(***************************************************************************)
(* agent.py: main() and the nodes.                                         *)
(***************************************************************************)
\* where main() stands
MainPcs == {"launch",      \* not started
            "astream",     \* line 199, phase 1
            "show_plan",   \* lines 203-209
            "prompt",      \* line 211, waiting for input()
            "ainvoke",     \* line 217, phase 2
            "report",      \* lines 218-231
            "done",        \* main() returned after the report
            "rejected",    \* main() returned at line 234
            "failed",      \* an exception left main()
            "exited"}      \* the process ended at the prompt

Terminal == {"done", "rejected", "failed", "exited"}

\* line 231, back at the prompt
after_report_ask_again == "prompt"

\* line 231 is the end of main()
after_report == "done"

\* line 234, back at the prompt
after_reject_ask_again == "prompt"

\* line 234 is the end of main()
after_reject == "rejected"

\* where main() continues when the graph run of pc `phase` returns
Back(phase) == IF phase = "astream" THEN "show_plan" ELSE "report"

\* the graph run goes on with node nxt: it returns to main() at END or at an
\* interrupt (not taken by the first step of a resumed run), else enters nxt
Continue(p, phase, nxt, resuming) ==
    IF nxt = END \/ (nxt \in interrupt_before /\ ~resuming)
    THEN /\ pc' = [pc EXCEPT ![p] = Back(phase)]
         /\ node' = [node EXCEPT ![p] = "none"]
         /\ xstep' = [xstep EXCEPT ![p] = "none"]
         /\ runs' = runs
    ELSE /\ pc' = [pc EXCEPT ![p] = phase]
         /\ node' = [node EXCEPT ![p] = nxt]
         /\ xstep' = [xstep EXCEPT ![p] = IF nxt = "executor" THEN "spawn" ELSE "none"]
         /\ runs' = [runs EXCEPT ![p][nxt] = @ + 1]

\* the graph compiled without a checkpointer
checkpointer_none == "None"

\* line 175
checkpointer == "MemorySaver"

\* the checkpointer puts checkpoint cp of thread tid into the store, over the
\* one the thread had
Save(store, tid, cp) == IF checkpointer = "None" THEN store ELSE Put(store, tid, cp)

\* node n returned `update`: the state takes it, the checkpoint is written
NodeReturns(p, n, update) ==
    LET vals == Put(values[p], update.key, update.value)
    IN  /\ values' = [values EXCEPT ![p] = vals]
        /\ memory' = [memory EXCEPT ![p] =
                         Save(@, thread_id[p], [values |-> vals, next |-> next_node(n)])]
        /\ Continue(p, pc[p], next_node(n), FALSE)

\* node n raised: nothing is written; the exception leaves the graph run and
\* main() unless the node is retried
NodeRaises(p, n) ==
    /\ faulted' = [faulted EXCEPT ![p] = n]
    /\ IF on_exception(n) = "raise"
       THEN /\ pc' = [pc EXCEPT ![p] = "failed"]
            /\ node' = [node EXCEPT ![p] = "none"]
            /\ xstep' = [xstep EXCEPT ![p] = "none"]
            /\ error' = [error EXCEPT ![p] = n]
            /\ runs' = runs
       ELSE /\ pc' = pc
            /\ node' = node
            /\ xstep' = [xstep EXCEPT ![p] = IF n = "executor" THEN "spawn" ELSE "none"]
            /\ error' = error
            /\ runs' = [runs EXCEPT ![p][n] = @ + 1]

InGraph(p, n) == pc[p] \in {"astream", "ainvoke"} /\ node[p] = n

\* lines 181-199: the session starts, astream begins
MainStart(p) ==
    /\ pc[p] = "launch"
    /\ \E tid \in {uuid4(p)}, req \in Requests :
          /\ thread_id' = [thread_id EXCEPT ![p] = tid]
          /\ values' = [values EXCEPT ![p] = [user_request |-> req]]
          /\ memory' = [memory EXCEPT ![p] =
                           Save(@, tid, [values |-> [user_request |-> req],
                                         next |-> entry_point])]
    /\ Continue(p, "astream", entry_point, FALSE)
    /\ UNCHANGED <<stdin, approval, worker, result, error, faulted, spawned, sent,
                   channel, raised_at, shown, toolVars, renderVars>>

\* lines 57-86
planner_node(p) ==
    /\ InGraph(p, "planner")
    /\ \E strategy \in Strategies : NodeReturns(p, "planner", planner_update(strategy))
    /\ UNCHANGED <<thread_id, stdin, approval, worker, result, error, faulted, spawned,
                   sent, channel, raised_at, shown, toolVars, renderVars>>

\* lines 81 and 148: the LLM call raises
llm_raises(p) ==
    /\ \E n \in {"planner", "writer"} : InGraph(p, n) /\ NodeRaises(p, n)
    /\ UNCHANGED <<thread_id, values, memory, stdin, approval, worker, result, spawned,
                   sent, channel, raised_at, shown, toolVars, renderVars>>

\* lines 105-126: the steps of the executor in the order of the code,
\* skipping the session and its handshake
next_step_no_handshake(s) ==
    CASE s = "spawn" -> "list_tools"
      [] s = "session" -> "initialize"
      [] s = "initialize" -> "list_tools"
      [] s = "list_tools" -> "call_tool"
      [] s = "call_tool" -> "extract"

\* lines 105-126: the steps of the executor in the order of the code
next_step(s) ==
    CASE s = "spawn" -> "session"
      [] s = "session" -> "initialize"
      [] s = "initialize" -> "list_tools"
      [] s = "list_tools" -> "call_tool"
      [] s = "call_tool" -> "extract"

\* a with block that is left without releasing what it holds
with_exit_leak(held, resource) == resource

\* lines 105-106: leaving an async with block, by return or by exception,
\* releases what the block holds (`held`: the state of the resource while held)
with_exit(held, resource) == IF resource \in held THEN "closed" ELSE resource

\* every executor run spawns into the one subprocess slot of session 1
worker_of_shared(p) == 1

\* line 105: every executor run spawns a subprocess of its own
worker_of(p) == p

\* lines 95-105: the queries are read, the worker subprocess is spawned
spawn(p) ==
    /\ InGraph(p, "executor") /\ xstep[p] = "spawn"
    /\ "search_strategy" \in DOMAIN values[p]
    /\ worker' = [worker EXCEPT ![worker_of(p)] = "live"]
    /\ spawned' = [spawned EXCEPT ![p] = @ + 1]
    /\ xstep' = [xstep EXCEPT ![p] = next_step("spawn")]
    /\ UNCHANGED <<pc, node, thread_id, values, memory, stdin, approval, result, error,
                   faulted, runs, sent, channel, raised_at, shown, toolVars,
                   renderVars>>

\* line 106: the client session is opened on the streams of the subprocess
open_session(p) ==
    /\ InGraph(p, "executor") /\ xstep[p] = "session"
    /\ channel' = [channel EXCEPT ![p] = "open"]
    /\ xstep' = [xstep EXCEPT ![p] = next_step("session")]
    /\ UNCHANGED <<pc, node, thread_id, values, memory, stdin, approval, worker,
                   result, error, faulted, runs, spawned, sent, raised_at, shown,
                   toolVars, renderVars>>

\* line 107: the handshake is sent and acknowledged
initialize(p) ==
    /\ InGraph(p, "executor") /\ xstep[p] = "initialize"
    /\ channel' = [channel EXCEPT ![p] = IF @ = "open" THEN "ready" ELSE @]
    /\ xstep' = [xstep EXCEPT ![p] = next_step("initialize")]
    /\ UNCHANGED <<pc, node, thread_id, values, memory, stdin, approval, worker,
                   result, error, faulted, runs, spawned, sent, raised_at, shown,
                   toolVars, renderVars>>

\* lines 110-111
list_tools(p) ==
    /\ InGraph(p, "executor") /\ xstep[p] = "list_tools"
    /\ xstep' = [xstep EXCEPT ![p] = next_step("list_tools")]
    /\ UNCHANGED <<pc, node, thread_id, values, memory, stdin, approval, worker,
                   result, error, faulted, runs, spawned, sent, channel, raised_at,
                   shown, toolVars, renderVars>>

\* line 115
call_tool(p) ==
    /\ InGraph(p, "executor") /\ xstep[p] = "call_tool"
    /\ LET queries == values[p].search_strategy.queries
       IN  /\ sent' = [sent EXCEPT ![p] = Append(@, queries)]
           /\ \E content \in ToolResults(queries) :
                 result' = [result EXCEPT ![p] = content]
    /\ xstep' = [xstep EXCEPT ![p] = next_step("call_tool")]
    /\ UNCHANGED <<pc, node, thread_id, values, memory, stdin, approval, worker, error,
                   faulted, runs, spawned, channel, raised_at, shown, toolVars,
                   renderVars>>

\* lines 107 and 115: the request is sent and the worker never answers; the
\* awaits carry no timeout, so the executor waits from then on
no_answer(p) ==
    /\ InGraph(p, "executor") /\ xstep[p] \in {"initialize", "call_tool"}
    /\ sent' = [sent EXCEPT ![p] = IF xstep[p] = "call_tool"
                                   THEN Append(@, values[p].search_strategy.queries)
                                   ELSE @]
    /\ xstep' = [xstep EXCEPT ![p] = "awaiting"]
    /\ UNCHANGED <<pc, node, thread_id, values, memory, stdin, approval, worker,
                   result, error, faulted, runs, spawned, channel, raised_at, shown,
                   toolVars, renderVars>>

\* lines 118-126: the text is extracted, the with blocks are left, the node returns
executor_return(p) ==
    /\ InGraph(p, "executor") /\ xstep[p] = "extract"
    /\ worker' = [worker EXCEPT ![worker_of(p)] = with_exit({"live"}, @)]
    /\ channel' = [channel EXCEPT ![p] = with_exit({"open", "ready"}, @)]
    /\ NodeReturns(p, "executor", executor_update(ExtractText(result[p])))
    /\ UNCHANGED <<thread_id, stdin, approval, result, error, faulted, spawned, sent,
                   raised_at, shown, toolVars, renderVars>>

\* lines 95-130: a step of the executor raises (at "spawn" the subprocess was
\* not started; at "call_tool" the request may have been sent); the with blocks
\* are left, the except clause logs and raises again
executor_raises(p) ==
    /\ InGraph(p, "executor")
    /\ xstep[p] \in {"spawn", "session", "initialize", "list_tools", "call_tool",
                     "extract"}
    /\ worker' = [worker EXCEPT ![worker_of(p)] = with_exit({"live"}, @)]
    /\ channel' = [channel EXCEPT ![p] = with_exit({"open", "ready"}, @)]
    /\ raised_at' = [raised_at EXCEPT ![p] = xstep[p]]
    /\ \/ sent' = sent
       \/ /\ xstep[p] = "call_tool"
          /\ sent' = [sent EXCEPT ![p] = Append(@, values[p].search_strategy.queries)]
    /\ NodeRaises(p, "executor")
    /\ UNCHANGED <<thread_id, values, memory, stdin, approval, result, spawned,
                   shown, toolVars, renderVars>>

\* lines 132-153
writer_node(p) ==
    /\ InGraph(p, "writer")
    /\ "search_results" \in DOMAIN values[p]
    /\ \E d \in Destinations :
          NodeReturns(p, "writer",
                      writer_update([destination |-> d,
                                     request |-> values[p].user_request,
                                     context |-> values[p].search_results]))
    /\ UNCHANGED <<thread_id, stdin, approval, worker, result, error, faulted, spawned,
                   sent, channel, raised_at, shown, toolVars, renderVars>>

\* lines 203-209: the strategy is read from the checkpoint and shown
show_plan(p) ==
    /\ pc[p] = "show_plan"
    /\ IF "search_strategy" \in DOMAIN memory[p][thread_id[p]].values
       THEN /\ pc' = [pc EXCEPT ![p] = "prompt"]
            /\ shown' = [shown EXCEPT ![p] =
                             memory[p][thread_id[p]].values.search_strategy.queries]
            /\ error' = error
       ELSE /\ pc' = [pc EXCEPT ![p] = "failed"]
            /\ shown' = shown
            /\ error' = [error EXCEPT ![p] = "KeyError"]
    /\ UNCHANGED <<node, xstep, thread_id, values, memory, stdin, approval, worker,
                   result, faulted, runs, spawned, sent, channel, raised_at,
                   toolVars, renderVars>>

\* the operator types a line to the process. The process reads its input at
\* the prompt only, so a line typed earlier or later is a line typed there
type_line(p) ==
    /\ pc[p] = "prompt"
    /\ Len(stdin[p]) + (IF approval[p] = "" THEN 0 ELSE 1) < MaxTyped
    /\ \E line \in Lines : stdin' = [stdin EXCEPT ![p] = Append(@, line)]
    /\ UNCHANGED <<pc, node, xstep, thread_id, values, memory, approval, worker,
                   result, error, faulted, runs, spawned, sent, channel, raised_at,
                   shown, toolVars, renderVars>>

\* line 217, running the graph from its entry point again
resume_from_start(cp) == entry_point

\* line 217: with None as input the graph goes on from the node the checkpoint
\* names as next
resume_from(cp) == cp.next

\* lines 211-217 and 233-234: input() returns; on 'y' ainvoke(None, config)
\* resumes the graph from the checkpoint of the thread
read_approval(p) ==
    /\ pc[p] = "prompt"
    /\ stdin[p] # <<>>
    /\ approval' = [approval EXCEPT ![p] = Head(stdin[p])]
    /\ stdin' = [stdin EXCEPT ![p] = Tail(@)]
    /\ IF Lower(Head(stdin[p])) = "y"
       THEN IF thread_id[p] \in DOMAIN memory[p]
            THEN /\ values' = [values EXCEPT ![p] = memory[p][thread_id[p]].values]
                 /\ Continue(p, "ainvoke", resume_from(memory[p][thread_id[p]]), TRUE)
                 /\ error' = error
            ELSE /\ pc' = [pc EXCEPT ![p] = "failed"]
                 /\ error' = [error EXCEPT ![p] = "EmptyInputError"]
                 /\ UNCHANGED <<node, xstep, values, runs>>
       ELSE /\ pc' = [pc EXCEPT ![p] = after_reject]
            /\ UNCHANGED <<node, xstep, values, runs, error>>
    /\ UNCHANGED <<thread_id, memory, worker, result, faulted, spawned, sent, channel,
                   raised_at, shown, toolVars, renderVars>>

\* lines 218-231
report(p) ==
    /\ pc[p] = "report"
    /\ IF "final_itinerary" \in DOMAIN values[p]
       THEN pc' = [pc EXCEPT ![p] = after_report] /\ error' = error
       ELSE pc' = [pc EXCEPT ![p] = "failed"] /\ error' = [error EXCEPT ![p] = "KeyError"]
    /\ UNCHANGED <<node, xstep, thread_id, values, memory, stdin, approval, worker,
                   result, faulted, runs, spawned, sent, channel, raised_at, shown,
                   toolVars, renderVars>>

\* line 211: input() is interrupted (end of input, Ctrl-C) and the process
\* ends; the MemorySaver of line 171 lives in the process and ends with it
prompt_exit(p) ==
    /\ pc[p] = "prompt"
    /\ pc' = [pc EXCEPT ![p] = "exited"]
    /\ memory' = [memory EXCEPT ![p] = EmptyDict]
    /\ values' = [values EXCEPT ![p] = EmptyDict]
    /\ error' = [error EXCEPT ![p] = "Interrupted"]
    /\ UNCHANGED <<node, xstep, thread_id, stdin, approval, worker, result, faulted,
                   runs, spawned, sent, channel, raised_at, shown, toolVars,
                   renderVars>>

AgentIdle ==
    /\ pc = [p \in Sessions |-> "launch"]
    /\ node = [p \in Sessions |-> "none"]
    /\ xstep = [p \in Sessions |-> "none"]
    /\ thread_id = [p \in Sessions |-> 0]
    /\ values = [p \in Sessions |-> EmptyDict]
    /\ memory = [p \in Sessions |-> EmptyDict]
    /\ stdin = [p \in Sessions |-> <<>>]
    /\ approval = [p \in Sessions |-> ""]
    /\ worker = [p \in Sessions |-> "none"]
    /\ channel = [p \in Sessions |-> "none"]
    /\ result = [p \in Sessions |-> <<>>]
    /\ error = [p \in Sessions |-> ""]
    /\ faulted = [p \in Sessions |-> ""]
    /\ raised_at = [p \in Sessions |-> ""]
    /\ runs = [p \in Sessions |-> [planner |-> 0, executor |-> 0, writer |-> 0]]
    /\ spawned = [p \in Sessions |-> 0]
    /\ sent = [p \in Sessions |-> <<>>]
    /\ shown = [p \in Sessions |-> <<>>]

\* the states of the pipeline state machine of the specification
Lifecycle(p) ==
    CASE pc[p] = "launch" -> "NONE"
      [] pc[p] \in {"astream", "ainvoke"} /\ node[p] = "planner" -> "PLANNING"
      [] pc[p] \in {"astream", "ainvoke"} /\ node[p] = "executor" -> "EXECUTING"
      [] pc[p] \in {"astream", "ainvoke"} /\ node[p] = "writer" -> "SYNTHESIZING"
      [] pc[p] \in {"show_plan", "prompt"} -> "AWAITING_APPROVAL"
      [] pc[p] \in {"report", "done"} -> "DONE"
      [] pc[p] = "rejected" -> "REJECTED"
      [] pc[p] = "failed" -> "FAILED"
      [] pc[p] = "exited" -> "EXITED"

ToolIdle ==
    /\ tool_pc = "idle"
    /\ tool_queries = <<>>
    /\ tool_oracle = <<>>
    /\ tool_ret = [calls |-> <<>>, results |-> <<>>, raised |-> FALSE, output |-> ""]

ToolInit ==
    /\ tool_key \in BOOLEAN
    /\ ToolIdle

\* the client calls search_tourism(queries)
SearchTourismCall ==
    /\ tool_pc = "idle"
    /\ \E queries \in QueryLists :
       \E oracle \in SeqsOfLen(Responses, Len(processing_queries(queries))) :
          /\ tool_queries' = queries
          /\ tool_oracle' = oracle
          /\ tool_ret' = search_tourism(tool_key, queries, oracle)
    /\ tool_pc' = "returned"
    /\ UNCHANGED <<tool_key, renderVars, agentVars>>

\* the server (mcp.run(), line 100) waits for the next call
ToolServe ==
    /\ tool_pc = "returned"
    /\ tool_pc' = "idle"
    /\ tool_queries' = <<>>
    /\ tool_oracle' = <<>>
    /\ tool_ret' = [calls |-> <<>>, results |-> <<>>, raised |-> FALSE, output |-> ""]
    /\ UNCHANGED <<tool_key, renderVars, agentVars>>

RenderIdle ==
    /\ render_pc = "idle"
    /\ render_res = [x \in {} |-> ""]
    /\ render_entry = ""

RenderResults ==
    {[title |-> "T", url |-> "http://u", content |-> Content(n)] : n \in ContentLengths}
    \cup {[x \in {} |-> ""], [title |-> "T"], [content |-> ""]}

RenderInit ==
    /\ render_pc = "in"
    /\ render_res \in RenderResults
    /\ render_entry = ""

\* lines 76-85 for one res
RenderEntry ==
    /\ render_pc = "in"
    /\ render_entry' = ResultEntry(render_res)
    /\ render_pc' = "out"
    /\ UNCHANGED <<render_res, toolVars, agentVars>>

Init == AgentIdle /\ ToolInit /\ RenderIdle

\* one run of the program: the first session, with no other beside it
Alone == {p \in Sessions : \A q \in Sessions : p <= q}

Next ==
    \E p \in Alone :
        \/ MainStart(p)
        \/ planner_node(p)
        \/ llm_raises(p)
        \/ spawn(p)
        \/ open_session(p)
        \/ initialize(p)
        \/ list_tools(p)
        \/ call_tool(p)
        \/ no_answer(p)
        \/ executor_return(p)
        \/ executor_raises(p)
        \/ writer_node(p)
        \/ show_plan(p)
        \/ type_line(p)
        \/ read_approval(p)
        \/ report(p)
        \/ prompt_exit(p)
Spec == Init /\ [][Next]_vars

\* the steps the process of session p takes by itself (what the operator does,
\* typing a line or ending the process at the prompt, is not among them)
ProgramStep(p) ==
    \/ MainStart(p)
    \/ planner_node(p)
    \/ llm_raises(p)
    \/ spawn(p)
    \/ open_session(p)
    \/ initialize(p)
    \/ list_tools(p)
    \/ call_tool(p)
    \/ no_answer(p)
    \/ executor_return(p)
    \/ executor_raises(p)
    \/ writer_node(p)
    \/ show_plan(p)
    \/ read_approval(p)
    \/ report(p)

\* asyncio.run(main()) (line 237): the event loop runs the process for as long
\* as it has a step to take
SpecLive == Init /\ [][Next]_vars /\ \A p \in Alone : WF_vars(ProgramStep(p))

\* the program run once per session, the processes side by side: every step
\* is a step of one of them, or of its operator
NextSideBySide ==
    \E p \in Sessions :
        \/ ProgramStep(p)
        \/ type_line(p)
        \/ prompt_exit(p)
SpecSideBySide == Init /\ [][NextSideBySide]_vars

InitTool == AgentIdle /\ ToolInit /\ RenderIdle
NextTool == SearchTourismCall \/ ToolServe
SpecTool == InitTool /\ [][NextTool]_vars

InitRender == AgentIdle /\ tool_key = TRUE /\ ToolIdle /\ RenderInit
NextRender == RenderEntry
SpecRender == InitRender /\ [][NextRender]_vars

(***************************************************************************)
(* Properties of the pipeline.                                             *)
(***************************************************************************)
\* the decision read at the prompt
Approved(p) == approval[p] # "" /\ Lower(approval[p]) = "y"
Rejected(p) == approval[p] # "" /\ Lower(approval[p]) # "y"

\* the worker subprocess was spawned, or a request was sent to it
TransportUsed(p) == spawned[p] > 0 \/ sent[p] # <<>> \/ worker[p] # "none"

HasCheckpoint(p) == thread_id[p] \in DOMAIN memory[p]
Checkpoint(p) == memory[p][thread_id[p]]

\* the final artifact is set, in the running state or in the checkpoint
HasArtifact(p) ==
    \/ "final_itinerary" \in DOMAIN values[p]
    \/ HasCheckpoint(p) /\ "final_itinerary" \in DOMAIN Checkpoint(p).values

\* C1: the tool process transport is used (a subprocess spawned, a
\* search_tourism request sent) only in states that follow an approval; a
\* session that was rejected never used it.
C1_NoTransportBeforeApproval ==
    \A p \in Sessions :
        /\ TransportUsed(p) \/ runs[p].executor > 0 => Approved(p)
        /\ pc[p] = "rejected" => ~TransportUsed(p) /\ runs[p].executor = 0

C1_Witness ==
    \E p \in Sessions :
        /\ pc[p] = "rejected" /\ approval[p] = "n"
        /\ runs[p].planner = 1
        /\ HasCheckpoint(p) /\ Checkpoint(p).next = "executor"
        /\ spawned[p] = 0 /\ sent[p] = <<>> /\ worker[p] = "none"

\* the fields of a pipeline state are set in pipeline order
InPipelineOrder(d) ==
    /\ "search_strategy" \in DOMAIN d => "user_request" \in DOMAIN d
    /\ "search_results" \in DOMAIN d => "search_strategy" \in DOMAIN d
    /\ "final_itinerary" \in DOMAIN d => "search_results" \in DOMAIN d

\* C2: in every state, the running pipeline state and every checkpoint have
\* their fields set in the order user_request, search_strategy,
\* search_results, final_itinerary: none is set while its predecessor is not.
C2_FieldOrder ==
    \A p \in Sessions :
        /\ InPipelineOrder(values[p])
        /\ \A t \in DOMAIN memory[p] : InPipelineOrder(memory[p][t].values)

C2_Witness ==
    \E p \in Sessions :
        /\ pc[p] = "done"
        /\ DOMAIN values[p] =
             {"user_request", "search_strategy", "search_results", "final_itinerary"}
        /\ Checkpoint(p).values = values[p]

\* C3: a session checkpointed after Plan and not decided yet can be resumed
\* from the session state store alone, the process having ended or not: the
\* store holds its checkpoint, with the request and the strategy, naming
\* Execute as the next stage (from which resume yields the artifact of the
\* uninterrupted run).
C3_ResumableAfterRestart ==
    \A p \in Sessions :
        (pc[p] \in {"prompt", "exited"} /\ approval[p] = "") =>
            /\ HasCheckpoint(p)
            /\ Checkpoint(p).next = "executor"
            /\ {"user_request", "search_strategy"} \subseteq DOMAIN Checkpoint(p).values

\* a decide reached the session after it took its decision, and the session
\* has ended
LateDecide(p) ==
    /\ approval[p] # "" /\ stdin[p] # <<>>
    /\ pc[p] \in {"done", "rejected", "failed"}

C6_RejectionTerminal ==
    /\ [](\A p \in Sessions :
            Rejected(p) =>
                /\ pc[p] = "rejected" /\ Lifecycle(p) = "REJECTED"
                /\ ~HasArtifact(p)
                /\ runs[p].executor = 0 /\ runs[p].writer = 0)
    /\ [][\A p \in Sessions :
            pc[p] = "rejected" =>
                /\ pc'[p] = "rejected" /\ approval'[p] = approval[p]
                /\ values'[p] = values[p] /\ memory'[p] = memory[p]
                /\ runs'[p] = runs[p]]_vars

C6_Witness ==
    \E p \in Sessions :
        /\ pc[p] = "rejected" /\ approval[p] = "n"
        /\ stdin[p] = <<"Y">>
        /\ ~HasArtifact(p)

\* C7: a failure of Execute or of Synthesize ends the session in FAILED with
\* that error surfaced from main(); the failed stage has run once, no artifact
\* is set, and from FAILED no step changes the session.
C7_FailureIsFinal ==
    /\ [](\A p \in Sessions :
            faulted[p] \in {"executor", "writer"} =>
                /\ pc[p] = "failed" /\ Lifecycle(p) = "FAILED"
                /\ error[p] = faulted[p]
                /\ runs[p][faulted[p]] = 1
                /\ ~HasArtifact(p))
    /\ [][\A p \in Sessions :
            pc[p] = "failed" =>
                /\ pc'[p] = "failed" /\ error'[p] = error[p]
                /\ runs'[p] = runs[p] /\ spawned'[p] = spawned[p]
                /\ values'[p] = values[p] /\ memory'[p] = memory[p]]_vars

C7_Witness ==
    \E p \in Sessions :
        /\ pc[p] = "failed" /\ faulted[p] = "executor" /\ error[p] = "executor"
        /\ sent[p] # <<>> /\ worker[p] = "closed"
        /\ runs[p].executor = 1 /\ runs[p].writer = 0

(***************************************************************************)
(* Text helpers of the properties.                                         *)
(***************************************************************************)
EndsWith(s, suffix) ==
    /\ Len(s) >= Len(suffix)
    /\ SubSeq(s, Len(s) - Len(suffix) + 1, Len(s)) = suffix

StartsWith(s, prefix) ==
    /\ Len(s) >= Len(prefix)
    /\ SubSeq(s, 1, Len(prefix)) = prefix

Contains(s, sub) ==
    \E i \in 1 .. (Len(s) - Len(sub) + 1) : SubSeq(s, i, i + Len(sub) - 1) = sub

NoteMarker == "queries were skipped"

(***************************************************************************)
(* C8  search_tourism searches exactly the first MAX_QUERIES_PER_BATCH     *)
(* queries and reports the exact number of skipped ones.                   *)
(***************************************************************************)
BatchCapped ==
    /\ Len(tool_ret.calls) = Min(Len(tool_queries), 3)
    /\ \A i \in 1 .. Len(tool_ret.calls) : tool_ret.calls[i] = tool_queries[i]
    /\ Len(tool_queries) > 3 =>
          EndsWith(tool_ret.output,
                   "\n*Note: " \o ToString(Len(tool_queries) - 3)
                   \o " queries were skipped to conserve resources.*")
    /\ Len(tool_queries) <= 3 => ~Contains(tool_ret.output, NoteMarker)

\* C8 as stated: for every input list of queries, the search API is called for
\* exactly the first 3 queries and for no other; with more than 3 queries the
\* output ends with the note carrying the skipped count len(queries) - 3, and
\* with 3 or fewer there is no note.
C8_Original == tool_pc = "returned" => BatchCapped

\* C8 amended: the same, for the calls made while TAVILY_API_KEY is set.
C8_BatchCapped == (tool_pc = "returned" /\ tool_key) => BatchCapped

C8_Witness ==
    /\ tool_pc = "returned" /\ tool_key
    /\ Len(tool_queries) = MAX_QUERIES_PER_BATCH + 2
    /\ tool_ret.calls = <<"q2", "q1", "q2">>
    /\ EndsWith(tool_ret.output,
                "*Note: 2 queries were skipped to conserve resources.*")

(***************************************************************************)
(* C9  a failing search never aborts the batch.                            *)
(***************************************************************************)
\* the same searches, none of them failing
Unfailed(oracle) ==
    [i \in DOMAIN oracle |->
        IF Raises(oracle[i]) THEN [results |-> <<>>] ELSE oracle[i]]

Accepted == SubSeq(tool_queries, 1, Min(Len(tool_queries), 3))

ExpectedSection(i) ==
    IF "exception" \in DOMAIN tool_oracle[i]
    THEN "Error searching '" \o Accepted[i] \o "': " \o tool_oracle[i].exception
    ELSE search_tourism(TRUE, tool_queries, Unfailed(tool_oracle)).results[i]


\* where section i starts in the output: after the sections before it, each
\* followed by the line break that joins them
RECURSIVE SectionStart(_)
SectionStart(i) ==
    IF i = 1 THEN 1 ELSE SectionStart(i - 1) + Len(ExpectedSection(i - 1)) + 1

\* what follows the last section: nothing, or the note on the skipped queries
Trailer ==
    IF Len(tool_queries) > 3
    THEN "\n\n*Note: " \o ToString(Len(tool_queries) - 3)
         \o " queries were skipped to conserve resources.*"
    ELSE ""

FailureContained ==
    /\ ~tool_ret.raised
    /\ \A i \in 1 .. Len(Accepted) :
          /\ SubSeq(tool_ret.output, SectionStart(i),
                    SectionStart(i) + Len(ExpectedSection(i)) - 1) = ExpectedSection(i)
          /\ ~Raises(tool_oracle[i]) =>
                StartsWith(ExpectedSection(i), "### Results for: '" \o Accepted[i] \o "'\n")
          /\ i < Len(Accepted) =>
                SubSeq(tool_ret.output, SectionStart(i + 1) - 1, SectionStart(i + 1) - 1) = "\n"
          /\ i = Len(Accepted) =>
                SubSeq(tool_ret.output, SectionStart(i) + Len(ExpectedSection(i)),
                       Len(tool_ret.output)) = Trailer

\* C9 as stated: whatever subset of the searches fails, the call returns
\* normally and the output holds exactly one section per accepted query (the
\* first 3 of the input), in input order: an error line for a failing query,
\* and for any other query the section it has when no query fails.
C9_Original == tool_pc = "returned" => FailureContained

\* C9 amended: the same, for the calls made while TAVILY_API_KEY is set.
C9_FailureContained == (tool_pc = "returned" /\ tool_key) => FailureContained

C9_Witness ==
    /\ tool_pc = "returned" /\ tool_key
    /\ Len(tool_queries) >= 3
    /\ Raises(tool_oracle[2]) /\ ~Raises(tool_oracle[1]) /\ ~Raises(tool_oracle[3])
    /\ Truthy(tool_oracle[3], "answer")
    /\ ~tool_ret.raised
    /\ Contains(tool_ret.output, "Error searching '" \o tool_queries[2] \o "': timeout\n### Results for: '")

(***************************************************************************)
(* C10  content is cut to MAX_CHARS_PER_RESULT characters plus "...".      *)
(***************************************************************************)
RenderHead ==
    "- **Title**: " \o (IF "title" \in DOMAIN render_res THEN render_res.title ELSE "N/A")
    \o "\n  **Link**: " \o (IF "url" \in DOMAIN render_res THEN render_res.url ELSE "#")
    \o "\n  **Content**: "

\* the content as rendered in the entry: what stands between the head and
\* the closing blank line
Rendered == SubSeq(render_entry, Len(RenderHead) + 1, Len(render_entry) - 2)

GivenContent == IF "content" \in DOMAIN render_res THEN render_res.content ELSE ""

\* C10: a content longer than 300 characters is rendered as its first 300
\* characters followed by "..."; a content of at most 300 characters (exactly
\* 300 and the empty string included) is rendered unchanged, with no marker.
C10_Truncation ==
    render_pc = "out" =>
        /\ StartsWith(render_entry, RenderHead)
        /\ EndsWith(render_entry, "\n\n")
        /\ Len(GivenContent) > 300 =>
              /\ Len(Rendered) = 303
              /\ SubSeq(Rendered, 1, 300) = SubSeq(GivenContent, 1, 300)
              /\ SubSeq(Rendered, 301, 303) = "..."
        /\ Len(GivenContent) <= 300 => Rendered = GivenContent

C10_Witness ==
    /\ render_pc = "out"
    /\ Len(GivenContent) = MAX_CHARS_PER_RESULT + 1
    /\ Len(Rendered) = MAX_CHARS_PER_RESULT + 3
    /\ EndsWith(Rendered, "abc...")

(***************************************************************************)
(* Properties of the executor and of the session state store.              *)
(***************************************************************************)
\* the Execute stage of session p has run and is over
ExecuteEnded(p) == runs[p].executor > 0 /\ ~InGraph(p, "executor")

\* C11: in no state outside the Execute stage is the worker subprocess live or
\* the message channel open; once the stage has ended, by return or by an
\* exception of any of its steps, the subprocess it spawned and the channel it
\* opened are closed.
C11_TransportReleased ==
    \A p \in Sessions :
        /\ ~InGraph(p, "executor") =>
              worker[p] # "live" /\ channel[p] \notin {"open", "ready"}
        /\ ExecuteEnded(p) =>
              /\ spawned[p] > 0 => worker[p] = "closed"
              /\ raised_at[p] \in {"initialize", "list_tools", "call_tool", "extract"}
                    => channel[p] = "closed"
              /\ "search_results" \in DOMAIN values[p] =>
                    worker[p] = "closed" /\ channel[p] = "closed"

C11_Witness ==
    \E p \in Sessions :
        /\ pc[p] = "failed" /\ raised_at[p] = "extract"
        /\ result[p] # <<>>
        /\ worker[p] = "closed" /\ channel[p] = "closed"

\* C12: an error of the capability discovery step (list_tools, line 110) does
\* not fail the Execute stage: the session that met it is not in FAILED, no
\* exception of the executor has left the graph, and the stage goes on to the
\* search_tourism request.
C12_DiscoveryErrorTolerated ==
    \A p \in Sessions :
        raised_at[p] = "list_tools" =>
            /\ Lifecycle(p) # "FAILED"
            /\ faulted[p] # "executor" /\ error[p] = ""
            /\ InGraph(p, "executor") => xstep[p] \in {"call_tool", "extract", "awaiting"}

\* the order of the transport steps: spawn, session and handshake, capability
\* discovery, invoke, extract; a step that raises or returns leaves the stage,
\* and a request that is not answered is awaited
StepPairs ==
    {<<"none", "spawn">>, <<"spawn", "session">>, <<"session", "initialize">>,
     <<"initialize", "list_tools">>, <<"list_tools", "call_tool">>,
     <<"call_tool", "extract">>,
     <<"initialize", "awaiting">>, <<"call_tool", "awaiting">>}
    \cup {<<s, "none">> : s \in {"spawn", "session", "initialize", "list_tools",
                                 "call_tool", "extract"}}

\* C13: the transport steps of one Execute stage happen in the order spawn,
\* handshake, capability discovery, invoke, extract; the search_tourism
\* request is sent only on a channel whose handshake was acknowledged; and one
\* Execute stage sends at most one search_tourism request, exactly one when it
\* succeeds.
C13_StepOrder ==
    /\ [](\A p \in Sessions :
            /\ Len(sent[p]) <= runs[p].executor /\ Len(sent[p]) <= 1
            /\ spawned[p] <= runs[p].executor
            /\ "search_results" \in DOMAIN values[p] =>
                  Len(sent[p]) = 1 /\ spawned[p] = 1
            /\ xstep[p] \in {"list_tools", "call_tool", "extract"} =>
                  channel[p] = "ready" /\ worker[p] = "live")
    /\ [][\A p \in Sessions :
            /\ xstep'[p] # xstep[p] => <<xstep[p], xstep'[p]>> \in StepPairs
            /\ sent'[p] # sent[p] =>
                  /\ xstep[p] = "call_tool"
                  /\ channel[p] = "ready" /\ worker[p] = "live"
                  /\ Len(sent'[p]) = Len(sent[p]) + 1]_vars

C13_Witness ==
    \E p \in Sessions :
        /\ pc[p] = "done"
        /\ sent[p] = << <<"q2", "q1", "q2", "q1">> >>
        /\ spawned[p] = 1 /\ runs[p].executor = 1
        /\ channel[p] = "closed"

\* C14: an approved session eventually reaches DONE or FAILED (a handshake or
\* a tool invocation that the worker never answers ends in a timeout that
\* fails the session), so that no approved session stays in EXECUTING forever.
C14_ApprovedTerminates ==
    \A p \in Sessions : Approved(p) ~> (Lifecycle(p) \in {"DONE", "FAILED"})

\* the checkpoint of session p is there, names `nxt` as the next stage and
\* holds the fields `fields` and no other, with the values of the session
CheckpointIs(p, nxt, fields) ==
    /\ HasCheckpoint(p)
    /\ Checkpoint(p).next = nxt
    /\ DOMAIN Checkpoint(p).values = fields
    /\ \A k \in fields : k \in DOMAIN values[p] /\ Checkpoint(p).values[k] = values[p][k]

OwnFields(p) ==
    CASE pc[p] = "launch" -> {"user_request"}
      [] InGraph(p, "planner") -> {"search_strategy"}
      [] InGraph(p, "executor") -> {"search_results"}
      [] InGraph(p, "writer") -> {"final_itinerary"}
      [] OTHER -> {}

\* dict `new` has every field of dict `old` with the same value, and beyond
\* them only fields of `may`
Extends(old, new, may) ==
    /\ \A k \in DOMAIN old : k \in DOMAIN new /\ new[k] = old[k]
    /\ (DOMAIN new \ DOMAIN old) \subseteq may

IsText(block) == block.type = "text"

\* the texts of the text blocks of a response, in arrival order
TextsOf(content) ==
    LET blocks == SelectSeq(content, IsText)
    IN  [i \in 1 .. Len(blocks) |-> blocks[i].text]

\* C17: the search_results stored by Execute, in the pipeline state and in the
\* checkpoint, are the texts of the blocks of type "text" of the response put
\* one after the other in arrival order; other blocks add nothing, and a
\* response with no block gives the empty string.
C17_ExtractedText ==
    \A p \in Sessions :
        "search_results" \in DOMAIN values[p] =>
            /\ values[p].search_results = Join(TextsOf(result[p]), "")
            /\ Checkpoint(p).values.search_results = values[p].search_results
            /\ result[p] = <<>> => values[p].search_results = ""

C17_Witness ==
    \E p \in Sessions :
        /\ Lifecycle(p) = "DONE"
        /\ Len(result[p]) = 3 /\ result[p][1].type = "image"
        /\ values[p].search_results = "AB"

\* C18: while TAVILY_API_KEY is not set, search_tourism returns the text of
\* the missing key for every list of queries, without raising and without a
\* call of the search API; a session whose worker answered with that text did
\* not fail in Execute: the text is stored as search_results and the session
\* went on to Synthesize.
C18_MissingKeyIsContent ==
    ~tool_key =>
        /\ \A queries \in QueryLists :
              LET ret == search_tourism(tool_key, queries, WorkerOracle(queries))
              IN  /\ ret.output = "Error: Server misconfigured (Missing API Key)."
                  /\ ret.calls = <<>>
                  /\ ~ret.raised
        /\ \A p \in Sessions :
              (result[p] # <<>> /\ Len(result[p]) = 1) =>
                  /\ result[p][1].type = "text"
                  /\ result[p][1].text = "Error: Server misconfigured (Missing API Key)."
                  /\ raised_at[p] \notin {"spawn", "session", "initialize",
                                          "list_tools", "call_tool"}
                  /\ "search_results" \in DOMAIN values[p] =>
                        /\ values[p].search_results = result[p][1].text
                        /\ faulted[p] # "executor"
                        /\ runs[p].writer = 1
                        /\ Lifecycle(p) \in {"SYNTHESIZING", "DONE", "FAILED"}

C18_Witness ==
    \E p \in Sessions :
        /\ ~tool_key
        /\ pc[p] = "done" /\ error[p] = ""
        /\ sent[p] = << <<"q1">> >>
        /\ values[p].search_results = MissingKeyText
        /\ values[p].final_itinerary.context = MissingKeyText

\* C20: Plan runs once per session, and not again on approval; every
\* search_tourism request carries exactly the queries that were printed for
\* approval, which are those of the strategy in the checkpoint written after
\* Plan, in the same order.
C20_ExecutesApprovedStrategy ==
    \A p \in Sessions :
        /\ runs[p].planner <= 1
        /\ approval[p] # "" => runs[p].planner = 1 /\ shown[p] # <<>>
        /\ (shown[p] # <<>> /\ HasCheckpoint(p)) =>
              /\ Checkpoint(p).values.search_strategy.queries = shown[p]
              /\ values[p].search_strategy.queries = shown[p]
        /\ \A i \in 1 .. Len(sent[p]) :
              /\ Approved(p)
              /\ sent[p][i] = shown[p]
              /\ sent[p][i] = Checkpoint(p).values.search_strategy.queries

C20_Witness ==
    \E p \in Sessions :
        /\ Lifecycle(p) = "EXECUTING" /\ xstep[p] = "extract"
        /\ runs[p].planner = 1
        /\ Len(shown[p]) = 4
        /\ sent[p] = <<shown[p]>>

(***************************************************************************)
(* Sessions side by side.                                                  *)
(***************************************************************************)
\* what belongs to session q: its lifecycle state, its pipeline state, its
\* checkpoints, its worker subprocess and channel
SessionState(q) ==
    <<pc[q], node[q], xstep[q], thread_id[q], values[q], memory[q], approval[q],
      worker[q], channel[q], result[q], error[q], faulted[q], runs[q], spawned[q],
      sent[q]>>

\* C19: with sessions running side by side under any interleaving, a step
\* (a start, an approval or a rejection, the completion or the failure of a
\* stage) changes the lifecycle state, the pipeline state, the checkpoint and
\* the worker of one session only; sessions have different ids, and the
\* worker subprocess of a session is one its own Execute stage spawned.
C19_SessionsIndependent ==
    /\ [](\A p \in Sessions :
            /\ worker[p] # "none" => spawned[p] > 0
            /\ worker[p] = "live" => InGraph(p, "executor")
            /\ \A q \in Sessions \ {p} :
                  thread_id[p] # 0 => thread_id[p] # thread_id[q])
    /\ [][\E p \in Sessions :
            \A q \in Sessions \ {p} : SessionState(q)' = SessionState(q)]_vars

C19_Witness ==
    \E p \in Sessions : \E q \in Sessions \ {p} :
        /\ worker[p] = "live" /\ worker[q] = "live"
        /\ thread_id[p] # thread_id[q]
        /\ xstep[p] = "extract" /\ xstep[q] = "initialize"
        /\ values[p].search_strategy # values[q].search_strategy
        /\ Checkpoint(p).values.search_strategy = values[p].search_strategy
        /\ Checkpoint(q).values.search_strategy = values[q].search_strategy

=============================================================================
